---- MODULE Spec2Model ----
(***************************************************************************)
(* Model of the Scryfall scrapper (services/scrapper/scryfall_scrapper.py):*)
(* the mana-cost evaluator, the card projector, the deduplicator and the   *)
(* fetch orchestrator with its log manager.                                *)
(*                                                                         *)
(* Python values are encoded with one shape per field:                     *)
(*   - a string is a sequence of one-character strings when its characters *)
(*     matter (mana costs) and a TLA+ string otherwise; None is Null;      *)
(*   - an optional integer is an integer, None is NoneInt;                 *)
(*   - a value whose Python type can vary carries a "kind" field.          *)
(***************************************************************************)
EXTENDS Integers, Sequences, FiniteSets, TLC

\* ------------------------------------------------------------------ bounds
MaxLen == 4
MaxCards == 3
MaxRand == 1
MaxRuns == 5
MaxRequests == 2

\* ------------------------------------------------------- encoding of None
Null == "None"
NoneInt == -1

\* ============================================================ evaluator ==
\* the decimal digits: the characters \d matches and int() accepts
DigitChars == {"0", "1", "2", "3", "4", "5", "6", "7", "8", "9"}

\* the one-character string U+00B2 (superscript two): str.isdigit() is True
\* for it, \d does not match it and int() rejects it
SuperTwo == "^2"

\* the characters for which str.isdigit() is True
IsDigitChars == DigitChars \cup {SuperTwo}

\* characters str.strip() removes
SpaceChars == {" "}

\* int() of one decimal digit
DigitVal(c) ==
    CASE c = "0" -> 0 [] c = "1" -> 1 [] c = "2" -> 2 [] c = "3" -> 3
      [] c = "4" -> 4 [] c = "5" -> 5 [] c = "6" -> 6 [] c = "7" -> 7
      [] c = "8" -> 8 [] c = "9" -> 9

RECURSIVE IntOf(_)
\* int(t) for a non-empty run of decimal digits
IntOf(t) ==
    IF Len(t) = 0 THEN 0
    ELSE 10 * IntOf(SubSeq(t, 1, Len(t) - 1)) + DigitVal(t[Len(t)])

SetMin(S) == CHOOSE x \in S : \A y \in S : x <= y
SetMax(S) == CHOOSE x \in S : \A y \in S : x >= y

RECURSIVE FindAllFrom(_, _)
\* re.findall(r"\{([^}]*)\}", s) scanning from position i: leftmost match,
\* the group is everything up to the first "}", then resume after it
FindAllFrom(s, i) ==
    IF i > Len(s) THEN << >>
    ELSE IF s[i] = "{"
         THEN LET closers == {j \in (i + 1)..Len(s) : s[j] = "}"}
              IN  IF closers = {} THEN FindAllFrom(s, i + 1)
                  ELSE LET j == SetMin(closers)
                       IN  <<SubSeq(s, i + 1, j - 1)>> \o FindAllFrom(s, j + 1)
         ELSE FindAllFrom(s, i + 1)

FindAll(s) == FindAllFrom(s, 1)

\* t.strip()
Strip(t) ==
    LET keep == {k \in 1..Len(t) : t[k] \notin SpaceChars}
    IN  IF keep = {} THEN << >> ELSE SubSeq(t, SetMin(keep), SetMax(keep))

\* t.isdigit(): non-empty and every character a digit
IsDigit(t) == Len(t) > 0 /\ \A k \in 1..Len(t) : t[k] \in IsDigitChars

\* int(t) raises ValueError: t is not a decimal numeral
IntRaises(t) == Len(t) = 0 \/ \E k \in 1..Len(t) : t[k] \notin DigitChars

\* re.match(r"^(\d+)", t): the longest leading run of digits (<< >> = no match)
LeadingDigits(t) ==
    LET stop == {k \in 1..Len(t) : t[k] \notin DigitChars}
    IN  IF stop = {} THEN t ELSE SubSeq(t, 1, SetMin(stop) - 1)

\* body of the for loop raises: int(t) after t.isdigit()
TokenRaises(tok) == IsDigit(Strip(tok)) /\ IntRaises(Strip(tok))

\* body of the for loop: the contribution of one token
TokenCmc(tok) ==
    LET t == Strip(tok)
    IN  IF IsDigit(t) THEN IntOf(t)
        ELSE IF Len(LeadingDigits(t)) > 0 THEN IntOf(LeadingDigits(t))
        ELSE 1

RECURSIVE SumTokens(_)
SumTokens(tokens) ==
    IF Len(tokens) = 0 THEN 0
    ELSE TokenCmc(Head(tokens)) + SumTokens(Tail(tokens))

\* a mana_cost value: kind "none" (None), "str" (chars) or "other" (a truthy
\* value that is not a str, e.g. a number)
ManaNone == [kind |-> "none", chars |-> << >>]
ManaOther == [kind |-> "other", chars |-> << >>]
ManaStr(s) == [kind |-> "str", chars |-> s]

CmcValue(n) == [exc |-> "none", val |-> n]
CmcRaised(e) == [exc |-> e, val |-> 0]

\* _parse_mana_cost_to_cmc: the total, or the exception that leaves the loop
ParseManaCostToCmc(mana_cost) ==
    IF mana_cost.kind # "str" \/ Len(mana_cost.chars) = 0 THEN CmcValue(0)
    ELSE LET tokens == FindAll(mana_cost.chars)
         IN  IF \E k \in 1..Len(tokens) : TokenRaises(tokens[k])
             THEN CmcRaised("ValueError")
             ELSE CmcValue(SumTokens(tokens))

\* ------------------------------------------- evaluator: inputs and driver
EvalAlphabet == {"{", "}", "1", "2", "0", "G", " ", SuperTwo}

RECURSIVE StringsUpTo(_)
StringsUpTo(n) ==
    IF n = 0 THEN {<< >>}
    ELSE LET shorter == StringsUpTo(n - 1)
         IN  shorter \cup {Append(s, c) : s \in shorter, c \in EvalAlphabet}

EvalInputs == {ManaNone, ManaOther} \cup {ManaStr(s) : s \in StringsUpTo(MaxLen)}

VARIABLES eval_pc, eval_in, eval_out

evalVars == <<eval_pc, eval_in, eval_out>>

EvalIdle == eval_pc = "idle" /\ eval_in = ManaNone /\ eval_out = CmcValue(0)

InitEval == eval_pc = "call" /\ eval_in \in EvalInputs /\ eval_out = CmcValue(0)

\* one call of _parse_mana_cost_to_cmc
EvalCall ==
    /\ eval_pc = "call"
    /\ eval_out' = ParseManaCostToCmc(eval_in)
    /\ eval_pc' = "ret"
    /\ UNCHANGED eval_in

\* ============================================================ projector ==
\* a nested mapping or list-typed source field: missing key, JSON null, or a
\* value of the expected shape
Absent(v) == [kind |-> "absent", val |-> v]
JsonNull(v) == [kind |-> "null", val |-> v]
Present(v) == [kind |-> "ok", val |-> v]

\* carta.get("colors", []) and the like: the default only replaces a missing
\* key; a key present with null yields None
GetList(f) == IF f.kind = "absent" THEN Present(<< >>) ELSE f

\* face.get('face_number') if isinstance(face, dict) else None, then the
\* positional index i (0-based) when that is None
FaceNumberOf(face, i) ==
    LET fn == IF face.kind = "dict" THEN face.face_number ELSE NoneInt
    IN  IF fn = NoneInt THEN i ELSE fn

\* the exception raised while the dict literal of one face is evaluated, in
\* the order of its entries: face.get on a face that is no dict, the
\* evaluator on the face's mana_cost, None.get on a null prices mapping
FaceExc(carta, face) ==
    IF face.kind # "dict" THEN "AttributeError"
    ELSE IF ParseManaCostToCmc(face.mana_cost).exc # "none"
    THEN ParseManaCostToCmc(face.mana_cost).exc
    ELSE IF carta.prices.kind = "null" THEN "AttributeError"
    ELSE "none"

\* the record of one face, given its cmc entry
FaceRecordWith(carta, face, i, cmc) ==
    [oracle_id |-> carta.oracle_id,
     parent_id |-> carta.id,
     face_number |-> FaceNumberOf(face, i),
     name |-> face.name,
     mana_cost |-> face.mana_cost,
     cmc |-> cmc,
     colors |-> GetList(face.colors),
     price_usd |-> IF carta.prices.kind = "absent" THEN Null ELSE carta.prices.val]

\* faulty variant: a face takes the cmc of its card, as the single-face branch does
FaceRecordCardCmc(carta, face, i) == FaceRecordWith(carta, face, i, carta.cmc)

\* lines 58-90: "cmc": _parse_mana_cost_to_cmc(face.get("mana_cost"))
FaceRecord(carta, face, i) ==
    FaceRecordWith(carta, face, i, ParseManaCostToCmc(face.mana_cost).val)

\* the dict literal of the single-face branch
SingleRaises(carta) == carta.prices.kind = "null"

SingleRecord(carta) ==
    [oracle_id |-> carta.oracle_id,
     parent_id |-> Null,
     face_number |-> carta.face_number,
     name |-> carta.name,
     mana_cost |-> carta.mana_cost,
     cmc |-> carta.cmc,
     colors |-> GetList(carta.colors),
     price_usd |-> IF carta.prices.kind = "absent" THEN Null ELSE carta.prices.val]

Returned(recs) == [exc |-> "none", recs |-> recs]
Raised(e) == [exc |-> e, recs |-> << >>]

\* filtrar_carta: the list of records, or the exception it raises
filtrar_carta(carta) ==
    IF carta.card_faces.kind = "null"
    THEN Raised("TypeError")
    ELSE IF carta.card_faces.kind = "ok" /\ Len(carta.card_faces.val) > 0
    THEN LET faces == carta.card_faces.val
             bad == {k \in 1..Len(faces) : FaceExc(carta, faces[k]) # "none"}
         IN  IF bad # {}
             THEN Raised(FaceExc(carta, faces[SetMin(bad)]))
             ELSE Returned([k \in 1..Len(faces) |-> FaceRecord(carta, faces[k], k - 1)])
    ELSE IF SingleRaises(carta)
         THEN Raised("AttributeError")
         ELSE Returned(<<SingleRecord(carta)>>)

\* ------------------------------------------- projector: inputs and driver
Mana2G == ManaStr(<<"{", "2", "}", "{", "G", "}">>)
ManaX == ManaStr(<<"{", "X", "}">>)
ManaSuper == ManaStr(<<"{", SuperTwo, "}">>)

MkFace(fn, nm, mc) ==
    [kind |-> "dict", face_number |-> fn, name |-> nm, mana_cost |-> mc,
     colors |-> Absent(<< >>)]

\* a card_faces entry that is not a mapping (e.g. a string)
NonDictFace ==
    [kind |-> "other", face_number |-> NoneInt, name |-> Null,
     mana_cost |-> ManaNone, colors |-> Absent(<< >>)]

ProjFaces ==
    {MkFace(fn, "F", mc) : fn \in {NoneInt, 0, 1}, mc \in {ManaNone, Mana2G, ManaX}}
        \cup {NonDictFace, MkFace(NoneInt, "F", ManaSuper)}

ProjFaceLists ==
    {Absent(<< >>), JsonNull(<< >>), Present(<< >>)}
        \cup {Present(<<f>>) : f \in ProjFaces}
        \cup {Present(<<f, g>>) : f \in ProjFaces, g \in ProjFaces}

ProjCards ==
    {[oracle_id |-> o, id |-> i, name |-> "N", face_number |-> fn, cmc |-> c,
      mana_cost |-> mc, colors |-> col, prices |-> pr, card_faces |-> cf] :
        o \in {Null, "X"}, i \in {Null, "A"}, fn \in {NoneInt, 0},
        c \in {NoneInt, 5}, mc \in {ManaNone, Mana2G},
        col \in {Absent(<< >>), JsonNull(<< >>), Present(<<"G">>)},
        pr \in {Absent(Null), JsonNull(Null), Present(Null), Present("1.00")},
        cf \in ProjFaceLists}

VARIABLES proj_pc, proj_in, proj_out

projVars == <<proj_pc, proj_in, proj_out>>

ProjIdleCard ==
    [oracle_id |-> Null, id |-> Null, name |-> Null, face_number |-> NoneInt,
     cmc |-> NoneInt, mana_cost |-> ManaNone, colors |-> Absent(<< >>),
     prices |-> Absent(Null), card_faces |-> Absent(<< >>)]

ProjIdle == proj_pc = "idle" /\ proj_in = ProjIdleCard /\ proj_out = Returned(<< >>)

InitProj == proj_pc = "call" /\ proj_in \in ProjCards /\ proj_out = Returned(<< >>)

\* one call of filtrar_carta
ProjCall ==
    /\ proj_pc = "call"
    /\ proj_out' = filtrar_carta(proj_in)
    /\ proj_pc' = "ret"
    /\ UNCHANGED proj_in

\* =========================================================== LogManager ==
\* _write_log: one line "[timestamp] [LEVEL] message" appended to the file
\* (the log file is taken to be writable; _write_log swallows the exception
\* of a failed write, lines 44-45)
WriteLog(lg, level, message) == Append(lg, [level |-> level, msg |-> message])

RECURSIVE WriteAll(_, _, _)
WriteAll(lg, level, messages) ==
    IF Len(messages) = 0 THEN lg
    ELSE WriteAll(WriteLog(lg, level, Head(messages)), level, Tail(messages))

\* LogManager.inicio_scraping: the four lines of the session header
InicioScraping(lg) ==
    WriteAll(lg, "INFO", <<"====", "INICIO DE SESION DE SCRAPING", "Fecha y hora de inicio", "====">>)

\* the final status line of fin_scraping
EstadoFinal(lg, errs, exitoso) ==
    IF exitoso /\ Len(errs) = 0
    THEN WriteLog(lg, "SUCCESS", "SCRAPING COMPLETADO EXITOSAMENTE")
    ELSE IF exitoso /\ Len(errs) > 0
    THEN WriteLog(lg, "WARNING", "SCRAPING COMPLETADO CON ADVERTENCIAS")
    ELSE WriteLog(lg, "ERROR", "SCRAPING FINALIZADO CON ERRORES")

\* LogManager.fin_scraping(exitoso), as the log it leaves; started is
\* session_start is not None, errs is self.errors
FinScraping(lg, started, errs, exitoso) ==
    IF ~started
    THEN WriteLog(lg, "WARNING", "No se habia iniciado ninguna sesion de scraping")
    ELSE LET head == WriteAll(lg, "INFO",
                         <<"====", "FIN DE SESION DE SCRAPING", "Fecha y hora de fin", "Duracion total">>)
             listed == IF Len(errs) = 0 THEN head
                       ELSE WriteAll(WriteAll(head, "INFO", <<"", "ERRORES REGISTRADOS:">>),
                                     "ERROR", errs)
             status == EstadoFinal(WriteLog(listed, "INFO", ""), errs, exitoso)
         IN  WriteAll(status, "INFO", <<"====", "">>)

\* ========================================================= deduplicator ==
\* float('inf'), as a number above every price of the model (in cents)
Inf == 1000000

NumericPrices == {"0.50", "1.00", "1.0", "2.10"}

\* float(p) of a numeric string, in cents
FloatOf(p) ==
    CASE p = "0.50" -> 50 [] p = "1.00" -> 100 [] p = "1.0" -> 100 [] p = "2.10" -> 210

\* faulty variant: a price that cannot be parsed counts as 0.0
price_value_zero(rec) ==
    LET p == rec.price_usd
    IN  IF p = Null THEN Inf
        ELSE IF p \in NumericPrices THEN FloatOf(p)
        ELSE 0

\* _price_value: None, and a string float() rejects (ValueError), give inf
price_value(rec) ==
    LET p == rec.price_usd
    IN  IF p = Null THEN Inf
        ELSE IF p \in NumericPrices THEN FloatOf(p)
        ELSE Inf

\* truth value of an id field in "a or b or c"
Truthy(x) == x # Null /\ x # ""

\* rec.get('oracle_id') or rec.get('parent_id') or rec.get('id'): a projected
\* record has no 'id' key, so the last operand is None
RawKey(rec) ==
    IF Truthy(rec.oracle_id) THEN rec.oracle_id
    ELSE IF Truthy(rec.parent_id) THEN rec.parent_id
    ELSE Null

\* the key of a record: its id, or f"_no_oracle_{random.getrandbits(64)}"
\* with bits the value drawn
KeyFor(rec, bits) ==
    IF RawKey(rec) = Null
    THEN [syn |-> TRUE, id |-> "_no_oracle_", bits |-> bits]
    ELSE [syn |-> FALSE, id |-> RawKey(rec), bits |-> 0]

\* the values random.getrandbits can return (64 bits in the code)
RandBits == 0..MaxRand

\* positions of the records for which a random key is drawn
NeedsRandom(recs) == {k \in 1..Len(recs) : RawKey(recs[k]) = Null}

RECURSIVE GroupFirst(_, _, _)
\* groups after the first n records: an insertion-ordered dict key -> list
GroupFirst(recs, n, draws) ==
    IF n = 0 THEN << >>
    ELSE LET prev == GroupFirst(recs, n - 1, draws)
             key == KeyFor(recs[n], IF n \in DOMAIN draws THEN draws[n] ELSE 0)
             at == {k \in 1..Len(prev) : prev[k].key = key}
         IN  IF at = {}
             THEN Append(prev, [key |-> key, items |-> <<recs[n]>>])
             ELSE LET k == CHOOSE k \in at : TRUE
                  IN  [prev EXCEPT ![k].items = Append(@, recs[n])]

\* any(item.get('face_number') is not None for item in items)
AnyFace(items) == \E k \in 1..Len(items) : items[k].face_number # NoneInt

\* one iteration of the by_face loop for an item whose bucket is face_key:
\* the dicts it can leave
ByFaceStepAt(bf, item, face_key) ==
    LET at == {k \in 1..Len(bf) : bf[k].face_key = face_key}
    IN  IF at = {}
        THEN {Append(bf, [face_key |-> face_key, item |-> item])}
        ELSE LET k == CHOOSE k \in at : TRUE
                 cur == bf[k].item
                 cur_price == price_value(cur)
                 new_price == price_value(item)
             IN  IF new_price < cur_price THEN {[bf EXCEPT ![k].item = item]}
                 ELSE IF new_price = cur_price
                 THEN {[bf EXCEPT ![k].item = pick] : pick \in {cur, item}}
                 ELSE {bf}

\* faulty variant: face_key = fn or '__none__', which sends face 0 to the bucket of
\* the records without face_number
ByFaceStepFalsy(bf, item) ==
    ByFaceStepAt(bf, item, IF item.face_number = 0 THEN NoneInt ELSE item.face_number)

\* lines 244-257: face_key = fn if fn is not None else '__none__'
ByFaceStep(bf, item) == ByFaceStepAt(bf, item, item.face_number)

\* best = None
NoRecord ==
    [oracle_id |-> Null, parent_id |-> Null, face_number |-> NoneInt, name |-> Null,
     mana_cost |-> ManaNone, cmc |-> NoneInt, colors |-> Present(<< >>),
     price_usd |-> Null]

NoBest == [some |-> FALSE, rec |-> NoRecord, price |-> Inf]

\* one iteration of the single-face loop: the (best, best_price) it can leave;
\* random.choice([best, item]) may return best, which is None until a record
\* has been chosen
BestStep(b, item) ==
    LET price == price_value(item)
    IN  IF price < b.price THEN {[some |-> TRUE, rec |-> item, price |-> price]}
        ELSE IF price = b.price
        THEN {b, [some |-> TRUE, rec |-> item, price |-> b.price]}
        ELSE {b}

\* result.extend(by_face.values())
FaceValues(bf) == [k \in 1..Len(bf) |-> bf[k].item]

\* if best is not None: result.append(best)
BestValues(b) == IF b.some THEN <<b.rec>> ELSE << >>

\* ========================================================= orchestrator ==
\* descargar_cartas_scryfall, one invocation.
\*   pc            position in the function ("returned": it returned ret;
\*                 "escaped": an exception left it)
\*   ret           the value returned (RetNone is None)
\*   failed        the stage whose failure ended the run ("none" so far)
\*   bulk_data     the 'type' of each entry of the catalog's 'data' list
\*   cartas, cartas_filtradas, groups, by_face, best, result: the locals
\*   gi, ii        the position of the two nested loops over groups.items()
\*   result_key    for each element of result, the key of the group it was
\*                 emitted for
\*   log, errors, session_start: the LogManager and its file
\*   log           holds the lines this invocation has appended to the file
\*   bulk_files    the files of bulk-data/ in the order of their modification
\*                 times, the oldest first
\*   nombre_archivo  the stamp in the name of the snapshot being written
\*   clock         the second the last snapshot name was taken from
\*   runs          the invocations the driver loop has made
\*   files_before  bulk_files as it was when this invocation began
\*   pass, first_out: the driver that applies the deduplicator again to its
\*                 own output (used by SpecTwice only)
VARIABLES pc, ret, failed, bulk_data, cartas, cartas_filtradas, groups, gi, ii,
          by_face, best, result, result_key, log, errors, session_start,
          bulk_files, pass, first_out, nombre_archivo, clock, runs, files_before

\* The API process (main.py), which serves one request at a time: its
\* handlers are coroutines that never await.
\*   api_pc        position in the handler ("idle" before the first request,
\*                 "done" once a request is answered)
\*   request       the request being served: endpoint, name, updates
\*   latest        the stamp of the path _latest_json_file returned
\*   data          the records json.load returned
\*   filtered      the records delete_card keeps
\*   affected      removed of delete_card, updated_count of update_card
\*   response      the answer to the request
\*   requests      the requests received so far
\*   files_at_request  bulk_files as it was when the request arrived
\*   api_logs      the files of api_log/ in the order of their modification
\*                 times, the oldest first
VARIABLES api_pc, request, latest, data, filtered, affected, response, requests,
          files_at_request, api_logs

apiVars == <<api_pc, request, latest, data, filtered, affected, response,
             requests, files_at_request, api_logs>>

dedupVars == <<groups, gi, ii, by_face, best, result, result_key>>
logVars == <<log, errors, session_start>>
stampVars == <<nombre_archivo, clock, files_before>>
runVars == <<pc, ret, failed, bulk_data, cartas, cartas_filtradas, dedupVars,
             logVars, bulk_files, pass, first_out, stampVars, runs>>
vars == <<runVars, evalVars, projVars, apiVars>>

NoRequest == [op |-> "none", name |-> Null, updates |-> << >>]

MkResponse(status, detail, count, file, body, unhandled) ==
    [status |-> status, detail |-> detail, count |-> count, file |-> file,
     body |-> body, unhandled |-> unhandled]

NoResponse == MkResponse(0, "", 0, Null, << >>, FALSE)

\* the API has received no request
ApiIdle ==
    /\ api_pc = "idle" /\ request = NoRequest /\ latest = NoneInt
    /\ data = << >> /\ filtered = << >> /\ affected = 0 /\ response = NoResponse
    /\ requests = 0 /\ files_at_request = << >>

RetNone == "None"
RetPending == "pending"

\* f"scryfall_cards_{datetime.now().strftime('%Y%m%d_%H%M%S')}.json", t being
\* the second the clock shows
NombreArchivo(t) == "scryfall_cards_" \o ToString(t) \o ".json"

\* max_files of _cleanup_old_files
MaxFiles == 3

\* ---------------------------------------------------------------- inputs
NoFaces == Absent(<< >>)
TwoFaces == Present(<<MkFace(NoneInt, "Front", Mana2G), MkFace(NoneInt, "Back", ManaNone)>>)

MkCard(o, i, nm, pr, cf) ==
    [oracle_id |-> o, id |-> i, name |-> nm, face_number |-> NoneInt, cmc |-> 5,
     mana_cost |-> Mana2G, colors |-> Present(<<"G">>), prices |-> pr,
     card_faces |-> cf]

\* the source cards a payload is made of: printings of one single-face card
\* (oracle "X") with no, unparsable, equal and different prices; a card with
\* no id at all; printings of a two-face card, priced and not; a two-face
\* card with no oracle_id; and a card whose prices mapping is null
RunCards ==
    {MkCard("X", "A", "NoPrice", Absent(Null), NoFaces),
     MkCard("X", "B", "BadPrice", Present("abc"), NoFaces),
     MkCard("X", "C", "Cheap", Present("1.00"), NoFaces),
     MkCard("X", "D", "CheapToo", Present("1.0"), NoFaces),
     MkCard("X", "E", "Dear", Present("2.10"), NoFaces),
     MkCard(Null, Null, "NoId", Present("1.00"), NoFaces),
     MkCard("X", "F", "Two", Present("1.00"), TwoFaces),
     MkCard("X", "G", "Two", Present("1.0"), TwoFaces),
     MkCard(Null, "F", "Two", Present("0.50"), TwoFaces),
     MkCard("X", "I", "Two", Absent(Null), TwoFaces),
     MkCard("X", "H", "NullPrices", JsonNull(Null), NoFaces)}

CardLists == UNION {[1..n -> RunCards] : n \in 0..MaxCards}

\* the catalogs the bulk-data endpoint can answer with; "no_data" stands for
\* a JSON object without the 'data' key
Catalogs == {<<"oracle_cards", "default_cards">>, <<"oracle_cards">>, <<"no_data">>}

Init ==
    /\ pc = "start" /\ ret = RetPending /\ failed = "none"
    /\ bulk_data = << >> /\ cartas = << >> /\ cartas_filtradas = << >>
    /\ groups = << >> /\ gi = 1 /\ ii = 1 /\ by_face = << >> /\ best = NoBest
    /\ result = << >> /\ result_key = << >>
    /\ log = << >> /\ errors = << >> /\ session_start = FALSE
    /\ bulk_files = << >> /\ pass = 1 /\ first_out = << >>
    /\ nombre_archivo = NoneInt /\ clock = 0 /\ runs = 1 /\ files_before = << >>
    /\ EvalIdle /\ ProjIdle
    /\ ApiIdle /\ api_logs = << >>

\* what no step of the run changes
Others == UNCHANGED <<evalVars, projVars, pass, first_out, runs, apiVars>>

Frame == Others /\ UNCHANGED stampVars

\* logger.error(error_msg); logger.fin_scraping(exitoso=False); return None
\* (the three except clauses and the "not default_cards" branch)
ReturnFailure(lg, stage, error_msg) ==
    /\ log' = FinScraping(WriteLog(lg, "ERROR", error_msg), session_start,
                          Append(errors, error_msg), FALSE)
    /\ errors' = << >>
    /\ session_start' = FALSE
    /\ ret' = RetNone
    /\ failed' = stage
    /\ pc' = "returned"

\* lines 138-148: paths, mkdir, LogManager, inicio_scraping
Setup ==
    /\ pc = "start"
    /\ log' = InicioScraping(log)
    /\ session_start' = TRUE
    /\ pc' = "query"
    /\ files_before' = bulk_files
    /\ UNCHANGED <<ret, failed, bulk_data, cartas, cartas_filtradas, dedupVars,
                   errors, bulk_files, nombre_archivo, clock>>
    /\ Others

\* line 140: bulk_data_dir.mkdir(exist_ok=True) raises OSError (the path is a
\* file, or the directory cannot be created); the call is outside the try
SetupRaises ==
    /\ pc = "start"
    /\ pc' = "escaped"
    /\ failed' = "setup"
    /\ files_before' = bulk_files
    /\ UNCHANGED <<ret, bulk_data, cartas, cartas_filtradas, dedupVars, logVars,
                   bulk_files, nombre_archivo, clock>>
    /\ Others

\* lines 156-163: the catalog request succeeds and its body is parsed
QueryCatalog ==
    /\ pc = "query"
    /\ \E c \in Catalogs : bulk_data' = c
    /\ log' = WriteLog(WriteLog(log, "INFO", "Conectando con la API de Scryfall"),
                       "SUCCESS", "Conexion establecida correctamente con la API")
    /\ pc' = "lookup"
    /\ UNCHANGED <<ret, failed, cartas, cartas_filtradas, dedupVars, errors,
                   session_start, bulk_files>>
    /\ Frame

\* line 163 raises: the catalog's body is not JSON (see ParseFails for the
\* except clause that takes it)
CatalogNotJson ==
    /\ pc = "query"
    /\ \E m \in {"Error al conectar con la API de Scryfall", "Error al procesar el JSON"} :
           ReturnFailure(WriteLog(WriteLog(log, "INFO", "Conectando con la API de Scryfall"),
                                  "SUCCESS", "Conexion establecida correctamente con la API"),
                         "query", m)
    /\ UNCHANGED <<bulk_data, cartas, cartas_filtradas, dedupVars, bulk_files>>
    /\ Frame

\* lines 158-159 raise RequestException (transport or HTTP status)
QueryFails ==
    /\ pc = "query"
    /\ ReturnFailure(WriteLog(log, "INFO", "Conectando con la API de Scryfall"),
                     "query", "Error al conectar con la API de Scryfall")
    /\ UNCHANGED <<bulk_data, cartas, cartas_filtradas, dedupVars, bulk_files>>
    /\ Frame

\* lines 166-170: the first entry whose type is 'default_cards'
HasDefaultCards(entries) == \E k \in 1..Len(entries) : entries[k] = "default_cards"

\* lines 165-193: the dataset is found
Lookup ==
    /\ pc = "lookup"
    /\ bulk_data # <<"no_data">>
    /\ HasDefaultCards(bulk_data)
    /\ log' = WriteLog(log, "INFO", "Progreso: Descargando dataset completo...")
    /\ pc' = "download"
    /\ UNCHANGED <<ret, failed, bulk_data, cartas, cartas_filtradas, dedupVars,
                   errors, session_start, bulk_files>>
    /\ Frame

\* lines 172-177: no entry of that type
LookupNotFound ==
    /\ pc = "lookup"
    /\ bulk_data # <<"no_data">>
    /\ ~HasDefaultCards(bulk_data)
    /\ ReturnFailure(log, "lookup", "No se encontro el dataset de cartas predeterminadas")
    /\ UNCHANGED <<bulk_data, cartas, cartas_filtradas, dedupVars, bulk_files>>
    /\ Frame

\* line 167: bulk_data['data'] raises KeyError, caught by except Exception
LookupRaises ==
    /\ pc = "lookup"
    /\ bulk_data = <<"no_data">>
    /\ ReturnFailure(log, "lookup", "Error inesperado: KeyError")
    /\ UNCHANGED <<bulk_data, cartas, cartas_filtradas, dedupVars, bulk_files>>
    /\ Frame

\* lines 195-199: the payload is downloaded
Download ==
    /\ pc = "download"
    /\ log' = WriteLog(WriteLog(log, "SUCCESS", "Descarga completada"),
                       "INFO", "Progreso: Parseando JSON...")
    /\ pc' = "parse"
    /\ UNCHANGED <<ret, failed, bulk_data, cartas, cartas_filtradas, dedupVars,
                   errors, session_start, bulk_files>>
    /\ Frame

\* lines 195-196 raise RequestException
DownloadFails ==
    /\ pc = "download"
    /\ ReturnFailure(log, "download", "Error al conectar con la API de Scryfall")
    /\ UNCHANGED <<bulk_data, cartas, cartas_filtradas, dedupVars, bulk_files>>
    /\ Frame

\* lines 203-209: the payload parses to a list of source cards, one of lists
ParseFrom(lists) ==
    /\ pc = "parse"
    /\ \E cs \in lists : cartas' = cs
    /\ log' = WriteLog(WriteLog(log, "INFO", "JSON parseado correctamente"),
                       "INFO", "Progreso: Filtrando cartas...")
    /\ pc' = "project"
    /\ UNCHANGED <<ret, failed, bulk_data, cartas_filtradas, dedupVars, errors,
                   session_start, bulk_files>>
    /\ Frame

Parse == ParseFrom(CardLists)

\* line 203 raises: the payload is not JSON. requests raises a
\* JSONDecodeError that, depending on its version, is also a
\* RequestException, so either except clause may take it
ParseFails ==
    /\ pc = "parse"
    /\ \E m \in {"Error al conectar con la API de Scryfall", "Error al procesar el JSON"} :
           ReturnFailure(log, "parse", m)
    /\ UNCHANGED <<bulk_data, cartas, cartas_filtradas, dedupVars, bulk_files>>
    /\ Frame

RECURSIVE ExtendAll(_, _)
\* lines 211-213 over the first n cards: the records so far, or the exception
\* of the first card whose projection raises
ExtendAll(cs, n) ==
    IF n = 0 THEN Returned(<< >>)
    ELSE LET prev == ExtendAll(cs, n - 1)
             one == filtrar_carta(cs[n])
         IN  IF prev.exc # "none" THEN prev
             ELSE IF one.exc # "none" THEN one
             ELSE Returned(prev.recs \o one.recs)

\* lines 211-215: every card is projected
Project ==
    /\ pc = "project"
    /\ ExtendAll(cartas, Len(cartas)).exc = "none"
    /\ cartas_filtradas' = ExtendAll(cartas, Len(cartas)).recs
    /\ log' = WriteLog(log, "SUCCESS", "Filtrado completado")
    /\ pc' = "group"
    /\ UNCHANGED <<ret, failed, bulk_data, cartas, dedupVars, errors,
                   session_start, bulk_files>>
    /\ Frame

\* line 213: filtrar_carta raises, caught by except Exception
ProjectRaises ==
    /\ pc = "project"
    /\ ExtendAll(cartas, Len(cartas)).exc # "none"
    /\ ReturnFailure(log, "projection", "Error inesperado")
    /\ UNCHANGED <<bulk_data, cartas, cartas_filtradas, dedupVars, bulk_files>>
    /\ Frame

\* line 275-276: cartas_filtradas = result
DedupDone(lg, res) ==
    /\ cartas_filtradas' = res
    /\ log' = WriteLog(lg, "SUCCESS", "Deduplicado completado")
    /\ pc' = "write"

\* lines 230-236: the grouping loop, one random key drawn for each record
\* that has no id
Group ==
    /\ pc = "group"
    /\ \E draws \in [NeedsRandom(cartas_filtradas) -> RandBits] :
           groups' = GroupFirst(cartas_filtradas, Len(cartas_filtradas), draws)
    /\ result' = << >> /\ result_key' = << >>
    /\ gi' = 1 /\ ii' = 1 /\ by_face' = << >> /\ best' = NoBest
    /\ IF Len(cartas_filtradas) = 0
       THEN DedupDone(WriteLog(log, "INFO", "Iniciando deduplicado de cartas..."), << >>)
       ELSE /\ log' = WriteLog(log, "INFO", "Iniciando deduplicado de cartas...")
            /\ pc' = "resolve"
            /\ UNCHANGED cartas_filtradas
    /\ UNCHANGED <<ret, failed, bulk_data, cartas, errors, session_start, bulk_files>>
    /\ Frame

\* after the last item of a group: its records are added to result, and the
\* loop moves to the next group or ends
EndOfGroup(emitted) ==
    /\ result' = result \o emitted
    /\ result_key' = result_key \o [k \in 1..Len(emitted) |-> groups[gi].key]
    /\ by_face' = << >> /\ best' = NoBest /\ ii' = 1
    /\ gi' = gi + 1
    /\ IF gi = Len(groups)
       THEN DedupDone(log, result \o emitted)
       ELSE UNCHANGED <<pc, cartas_filtradas, log>>

\* lines 239-273: one iteration of the inner loop over the items of group gi
DedupItem ==
    /\ pc = "resolve"
    /\ LET items == groups[gi].items
           item == items[ii]
           last == ii = Len(items)
       IN  IF AnyFace(items)
           THEN \E bf \in ByFaceStep(by_face, item) :
                    IF last THEN EndOfGroup(FaceValues(bf))
                    ELSE /\ by_face' = bf /\ ii' = ii + 1
                         /\ UNCHANGED <<gi, best, result, result_key, pc,
                                        cartas_filtradas, log>>
           ELSE \E b \in BestStep(best, item) :
                    IF last THEN EndOfGroup(BestValues(b))
                    ELSE /\ best' = b /\ ii' = ii + 1
                         /\ UNCHANGED <<gi, by_face, result, result_key, pc,
                                        cartas_filtradas, log>>
    /\ UNCHANGED <<ret, failed, bulk_data, cartas, groups, errors, session_start,
                   bulk_files>>
    /\ Frame

\* ------------------------------------------------ the directory bulk-data/
\* a file: the stamp and the suffix of its name (scryfall_cards_<stamp> and
\* "json" or "tmp"), whether its content is a complete JSON document, the
\* records it holds, and whether the run holds it open for writing
MkFile(stamp, suffix, complete, recs, open) ==
    [stamp |-> stamp, suffix |-> suffix, complete |-> complete, data |-> recs,
     open |-> open]

\* the directory without the entry of one path
Without(files, stamp, suffix) ==
    SelectSeq(files, LAMBDA f : ~(f.stamp = stamp /\ f.suffix = suffix))

\* open(path, 'w'): the file is created, or truncated, and is now the most
\* recently modified
OpenForWrite(files, stamp, suffix, open) ==
    Append(Without(files, stamp, suffix), MkFile(stamp, suffix, FALSE, << >>, open))

\* directory.glob("scryfall_cards_*.json"), as positions in the directory
Glob(files) == {i \in 1..Len(files) : files[i].suffix = "json"}

\* lines 280-286: the name is taken from the clock, which shows the second of
\* the previous snapshot or a later one, and the file is opened
OpenOutput ==
    /\ pc = "write"
    /\ \E t \in {clock, clock + 1} :
           /\ t > 0
           /\ nombre_archivo' = t
           /\ clock' = t
           /\ bulk_files' = OpenForWrite(bulk_files, t, "json", TRUE)
    /\ log' = WriteLog(log, "INFO", "Guardando datos en archivo")
    /\ pc' = "dump"
    /\ UNCHANGED <<ret, failed, bulk_data, cartas, cartas_filtradas, dedupVars,
                   errors, session_start, files_before>>
    /\ Others

\* line 286 raises OSError: the file cannot be opened and is not created
OpenFails ==
    /\ pc = "write"
    /\ ReturnFailure(WriteLog(log, "INFO", "Guardando datos en archivo"),
                     "write", "Error inesperado: OSError")
    /\ UNCHANGED <<bulk_data, cartas, cartas_filtradas, dedupVars, bulk_files>>
    /\ Frame

\* the directory after the run has written content to the file it holds open
\* and closed it; a path that was replaced meanwhile names another file, and
\* the directory does not show what was written
Dumped(files, complete, recs) ==
    LET mine == {i \in 1..Len(files) : files[i].open}
    IN  IF mine = {} THEN files
        ELSE LET f == files[SetMin(mine)]
             IN  Append(SelectSeq(files, LAMBDA g : ~g.open),
                        MkFile(f.stamp, f.suffix, complete, recs, FALSE))

\* lines 287-297: json.dump writes the records and the file is closed
Write ==
    /\ pc = "dump"
    /\ bulk_files' = Dumped(bulk_files, TRUE, cartas_filtradas)
    /\ log' = WriteLog(log, "SUCCESS", "Archivo guardado")
    /\ pc' = "cleanup"
    /\ UNCHANGED <<ret, failed, bulk_data, cartas, cartas_filtradas, dedupVars,
                   errors, session_start>>
    /\ Frame

\* line 287 raises OSError (the disk is full): the file stays, with part of
\* the document in it
WriteFails ==
    /\ pc = "dump"
    /\ bulk_files' = Dumped(bulk_files, FALSE, << >>)
    /\ ReturnFailure(log, "write", "Error inesperado: OSError")
    /\ UNCHANGED <<bulk_data, cartas, cartas_filtradas, dedupVars>>
    /\ Frame

\* faulty variant: the sort without reverse=True, which deletes the most recent
FilesToDeleteNewest(files, max_files) ==
    {i \in Glob(files) : Cardinality({j \in Glob(files) : j < i}) >= max_files}

\* lines 304-306: files[max_files:] of the snapshots sorted by modification
\* time, the most recent first, as positions in the directory
FilesToDelete(files, max_files) ==
    {i \in Glob(files) : Cardinality({j \in Glob(files) : j > i}) >= max_files}

\* _cleanup_old_files: the directory it leaves; failing holds the files whose
\* unlink raises
CleanupOldFiles(files, max_files, failing) ==
    LET gone == FilesToDelete(files, max_files) \ failing
        left == {i \in 1..Len(files) : i \notin gone}
        at(k) == CHOOSE i \in left : Cardinality({j \in left : j < i}) = k - 1
    IN  [k \in 1..Cardinality(left) |-> files[at(k)]]

\* lines 307-314: the log line of each file of files_to_delete, the most
\* recent first
CleanupLog(files, max_files, failing) ==
    LET del == FilesToDelete(files, max_files)
        at(k) == CHOOSE i \in del : Cardinality({j \in del : j > i}) = k - 1
    IN  [k \in 1..Cardinality(del) |->
            IF at(k) \in failing
            THEN [level |-> "WARNING", msg |-> "No se pudo eliminar"]
            ELSE [level |-> "INFO", msg |-> "Archivo antiguo eliminado"]]

\* line 316
Cleanup ==
    /\ pc = "cleanup"
    /\ \E failing \in SUBSET FilesToDelete(bulk_files, MaxFiles) :
           /\ bulk_files' = CleanupOldFiles(bulk_files, MaxFiles, failing)
           /\ log' = log \o CleanupLog(bulk_files, MaxFiles, failing)
    /\ pc' = "finish"
    /\ UNCHANGED <<ret, failed, bulk_data, cartas, cartas_filtradas, dedupVars,
                   errors, session_start>>
    /\ Frame

\* lines 319-322
Finish ==
    /\ pc = "finish"
    /\ log' = FinScraping(WriteLog(log, "SUCCESS", "Proceso completado exitosamente sin errores"),
                          session_start, errors, TRUE)
    /\ errors' = << >>
    /\ session_start' = FALSE
    /\ ret' = NombreArchivo(nombre_archivo)
    /\ pc' = "returned"
    /\ UNCHANGED <<failed, bulk_data, cartas, cartas_filtradas, dedupVars, bulk_files>>
    /\ Frame

\* every step of the run but the parsing of the payload
Steps ==
    \/ Setup \/ SetupRaises
    \/ QueryCatalog \/ QueryFails \/ CatalogNotJson
    \/ Lookup \/ LookupNotFound \/ LookupRaises
    \/ Download \/ DownloadFails
    \/ ParseFails
    \/ Project \/ ProjectRaises
    \/ Group \/ DedupItem
    \/ OpenOutput \/ OpenFails
    \/ Write \/ WriteFails
    \/ Cleanup \/ Finish

Next == Steps \/ Parse

Spec == Init /\ [][Next]_vars

\* ------------------------------------ the deduplicator applied twice
\* deduplicate(deduplicate(records)): the output of the first pass becomes
\* the input of a second one
Reapply ==
    /\ pc = "write"
    /\ pass = 1
    /\ first_out' = cartas_filtradas
    /\ pass' = 2
    /\ pc' = "group"
    /\ UNCHANGED <<ret, failed, bulk_data, cartas, cartas_filtradas, dedupVars,
                   logVars, bulk_files, evalVars, projVars, stampVars, runs,
                   apiVars>>

NextTwice == Next \/ Reapply

SpecTwice == Init /\ [][NextTwice]_vars

\* ------------------------------------ the driver loop: one run after another
\* the payloads of the runs that fill the directory: two cards with the same
\* name and a third, all priced and with oracle_ids of their own; the third
\* alone; no card at all; a card whose projection raises
StoreCards ==
    <<MkCard("X", "C", "Cheap", Present("1.00"), NoFaces),
      MkCard("Z", "E", "Dear", Present("2.10"), NoFaces),
      MkCard("Y", "D", "Cheap", Present("2.10"), NoFaces)>>

StoreLists ==
    {StoreCards, <<StoreCards[2]>>, << >>,
     <<MkCard("X", "H", "NullPrices", JsonNull(Null), NoFaces)>>}

ParseStore == ParseFrom(StoreLists)

\* lines 386-394: the loop of __main__ calls descargar_cartas_scryfall again
\* after the previous call has returned
Rerun ==
    /\ pc = "returned"
    /\ runs < MaxRuns
    /\ runs' = runs + 1
    /\ pc' = "start" /\ ret' = RetPending /\ failed' = "none"
    /\ bulk_data' = << >> /\ cartas' = << >> /\ cartas_filtradas' = << >>
    /\ groups' = << >> /\ gi' = 1 /\ ii' = 1 /\ by_face' = << >> /\ best' = NoBest
    /\ result' = << >> /\ result_key' = << >>
    /\ log' = << >> /\ errors' = << >> /\ session_start' = FALSE
    /\ nombre_archivo' = NoneInt
    /\ UNCHANGED <<bulk_files, clock, files_before, pass, first_out, evalVars,
                   projVars, apiVars>>

NextRuns == Steps \/ ParseStore \/ Rerun

SpecRuns == Init /\ [][NextRuns]_vars

\* ================================================================= API ==
\* what the run holds besides the directory
runLocals == <<pc, ret, failed, bulk_data, cartas, cartas_filtradas, dedupVars,
               logVars, pass, first_out, stampVars, runs>>

ApiFrame == UNCHANGED <<runLocals, evalVars, projVars>>

\* _latest_json_file: the stamp of the most recently modified snapshot, or None
LatestJsonFile(files) ==
    IF Glob(files) = {} THEN NoneInt ELSE files[SetMax(Glob(files))].stamp

\* _latest_log_file: the day of the most recently modified api_*.log, or None
LatestLogFile(logs) == IF Len(logs) = 0 THEN Null ELSE logs[Len(logs)].day

\* APILogManager.request, called by the middleware with the status of the
\* response: one INFO line appended to the log file of the day the process
\* started (the file is taken to be writable; _write_log swallows the
\* exception of a failed write)
LogRequest(logs, req, status) ==
    LET line == [level |-> "INFO", op |-> req.op, status |-> status]
        mine == {i \in 1..Len(logs) : logs[i].day = "today"}
    IN  IF mine = {}
        THEN Append(logs, [day |-> "today", lines |-> <<line>>])
        ELSE Append(SelectSeq(logs, LAMBDA f : f.day # "today"),
                    [day |-> "today", lines |-> Append(logs[SetMin(mine)].lines, line)])

\* the handler returns, or raises HTTPException, and the middleware logs the
\* request
Respond(req, resp) ==
    /\ response' = resp
    /\ api_pc' = "done"
    /\ api_logs' = LogRequest(api_logs, req, resp.status)

\* HTTPException(status_code, detail)
HttpError(status, detail) == MkResponse(status, detail, 0, Null, << >>, FALSE)

\* lines 141-142: for k, v in updates.items(): rec[k] = v; updates is the
\* sequence of the (key, value) pairs of the body
UpdateRec(rec, updates) ==
    LET keys == {updates[j][1] : j \in 1..Len(updates)}
        val(k) == updates[CHOOSE j \in 1..Len(updates) : updates[j][1] = k][2]
    IN  [k \in DOMAIN rec \cup keys |-> IF k \in keys THEN val(k) ELSE rec[k]]

\* faulty variant: the comparison inverted, which keeps the named records only
FilteredNamed(recs, name) == SelectSeq(recs, LAMBDA rec : rec.name = name)

\* line 94: [rec for rec in data if rec.get("name") != name]
Filtered(recs, name) == SelectSeq(recs, LAMBDA rec : rec.name # name)

\* faulty variant: the loop stops at the first record of that name
UpdatedFirst(recs, name, updates) ==
    [k \in 1..Len(recs) |->
        IF recs[k].name = name /\ (\A j \in 1..(k - 1) : recs[j].name # name)
        THEN UpdateRec(recs[k], updates) ELSE recs[k]]

\* lines 138-143: the records after the loop, and updated_count
Updated(recs, name, updates) ==
    [k \in 1..Len(recs) |->
        IF recs[k].name = name THEN UpdateRec(recs[k], updates) ELSE recs[k]]

UpdatedCount(recs, name) == Cardinality({k \in 1..Len(recs) : recs[k].name = name})

\* ---------------------------------------------------------------- requests
ApiNames == {"Cheap", "Dear"}

ApiUpdates == { << <<"price_usd", "9.99">> >>, << <<"name", "Dear">>, <<"note", "x">> >> }

CardRequests ==
    {[op |-> "get", name |-> Null, updates |-> << >>]}
        \cup {[op |-> "delete", name |-> n, updates |-> << >>] : n \in ApiNames}
        \cup {[op |-> "update", name |-> n, updates |-> u] : n \in ApiNames, u \in ApiUpdates}

LogsRequest == [op |-> "logs", name |-> Null, updates |-> << >>]

\* lines 63-65, 82-84, 128-130: a request to /cards-data, /cards-delete or
\* /cards-update arrives and the handler looks for the latest snapshot
ApiSelect ==
    /\ api_pc \in {"idle", "done"}
    /\ requests < MaxRequests
    /\ \E req \in CardRequests :
           /\ request' = req
           /\ latest' = LatestJsonFile(bulk_files)
           /\ IF LatestJsonFile(bulk_files) = NoneInt
              THEN Respond(req, HttpError(404, "No hay archivos de datos disponibles"))
              ELSE /\ api_pc' = "load"
                   /\ response' = NoResponse
                   /\ UNCHANGED api_logs
    /\ requests' = requests + 1
    /\ files_at_request' = bulk_files
    /\ data' = << >> /\ filtered' = << >> /\ affected' = 0
    /\ UNCHANGED bulk_files
    /\ ApiFrame

\* lines 67-73, 86-98, 132-146: the file is opened and parsed; /cards-data
\* answers with the records, the other two look for the name
ApiLoad ==
    /\ api_pc = "load"
    /\ LET found == {i \in Glob(bulk_files) : bulk_files[i].stamp = latest}
       IN  IF found = {} \/ (\E i \in found : ~bulk_files[i].complete)
           THEN /\ Respond(request, HttpError(500, "Error al leer el archivo"))
                /\ UNCHANGED <<data, filtered, affected>>
           ELSE LET recs == bulk_files[SetMin(found)].data
                IN  IF request.op = "get"
                    THEN /\ data' = recs
                         /\ Respond(request, MkResponse(200, "", 0, Null, recs, FALSE))
                         /\ UNCHANGED <<filtered, affected>>
                    ELSE IF request.op = "delete"
                    THEN /\ data' = recs
                         /\ filtered' = Filtered(recs, request.name)
                         /\ affected' = Len(recs) - Len(Filtered(recs, request.name))
                         /\ IF Len(recs) = Len(Filtered(recs, request.name))
                            THEN Respond(request, HttpError(404, "No se encontro ninguna carta con el nombre exacto"))
                            ELSE /\ api_pc' = "write"
                                 /\ UNCHANGED <<response, api_logs>>
                    ELSE /\ data' = Updated(recs, request.name, request.updates)
                         /\ affected' = UpdatedCount(recs, request.name)
                         /\ UNCHANGED filtered
                         /\ IF UpdatedCount(recs, request.name) = 0
                            THEN Respond(request, HttpError(404, "No se encontro ninguna carta con el nombre exacto"))
                            ELSE /\ api_pc' = "write"
                                 /\ UNCHANGED <<response, api_logs>>
    /\ UNCHANGED <<bulk_files, request, latest, requests, files_at_request>>
    /\ ApiFrame

\* what the handler writes back: filtered (line 104) or data (line 151)
Rewritten == IF request.op = "delete" THEN filtered ELSE data

\* lines 101-104, 148-151: the records are written to latest.with_suffix(".tmp")
ApiWriteTmp ==
    /\ api_pc = "write"
    /\ bulk_files' = Append(Without(bulk_files, latest, "tmp"),
                            MkFile(latest, "tmp", TRUE, Rewritten, FALSE))
    /\ api_pc' = "replace"
    /\ UNCHANGED <<request, latest, data, filtered, affected, response, requests,
                   files_at_request, api_logs>>
    /\ ApiFrame

\* lines 103-104 or 150-151 raise: the .tmp file was not opened, or it holds
\* part of the document; the handler unlinks it if it exists, which may fail
\* too, and answers 500
ApiWriteFails ==
    /\ api_pc = "write"
    /\ \E left \in {bulk_files, Without(bulk_files, latest, "tmp"),
                    OpenForWrite(bulk_files, latest, "tmp", FALSE)} :
           bulk_files' = left
    /\ Respond(request, HttpError(500, "Error al actualizar el archivo"))
    /\ UNCHANGED <<request, latest, data, filtered, affected, requests, files_at_request>>
    /\ ApiFrame

\* os.replace(tmp_path, latest): the .tmp file takes the name of the
\* snapshot, whose former file is gone; it keeps its modification time
Replaced(files, stamp) ==
    LET kept == Without(files, stamp, "json")
    IN  [k \in 1..Len(kept) |->
            IF kept[k].stamp = stamp /\ kept[k].suffix = "tmp"
            THEN [kept[k] EXCEPT !.suffix = "json"]
            ELSE kept[k]]

\* lines 106 and 116, 152 and 161: the atomic replacement and the answer
ApiReplace ==
    /\ api_pc = "replace"
    /\ bulk_files' = Replaced(bulk_files, latest)
    /\ Respond(request, MkResponse(200, "success", affected, NombreArchivo(latest), << >>, FALSE))
    /\ UNCHANGED <<request, latest, data, filtered, affected, requests, files_at_request>>
    /\ ApiFrame

\* line 106 or 152 raises: the handler unlinks the .tmp file, which may fail
\* too, and answers 500
ApiReplaceFails ==
    /\ api_pc = "replace"
    /\ \E left \in {bulk_files, Without(bulk_files, latest, "tmp")} : bulk_files' = left
    /\ Respond(request, HttpError(500, "Error al actualizar el archivo"))
    /\ UNCHANGED <<request, latest, data, filtered, affected, requests, files_at_request>>
    /\ ApiFrame

\* get_logs_data. Line 177 calls .exists() on the None that _latest_log_file
\* returns when there is no log file (AttributeError); with a log file, line
\* 181 reads the local variable line before any assignment to it
\* (UnboundLocalError). Neither is caught: the exception leaves the handler
\* and the middleware (call_next raises, so no line is logged), and the
\* server answers 500
GetLogsData ==
    /\ api_pc \in {"idle", "done"}
    /\ requests < MaxRequests
    /\ request' = LogsRequest
    /\ requests' = requests + 1
    /\ files_at_request' = bulk_files
    /\ latest' = NoneInt /\ data' = << >> /\ filtered' = << >> /\ affected' = 0
    /\ response' = MkResponse(500,
                              IF LatestLogFile(api_logs) = Null
                              THEN "AttributeError" ELSE "UnboundLocalError",
                              0, Null, << >>, TRUE)
    /\ api_pc' = "done"
    /\ UNCHANGED <<bulk_files, api_logs>>
    /\ ApiFrame

NextApi ==
    \/ ApiSelect \/ ApiLoad
    \/ ApiWriteTmp \/ ApiWriteFails
    \/ ApiReplace \/ ApiReplaceFails
    \/ GetLogsData

\* the records of the snapshots the runs above write
StoreData ==
    {ExtendAll(cs, Len(cs)).recs :
        cs \in {l \in StoreLists : ExtendAll(l, Len(l)).exc = "none"}}

\* the files a directory left by runs can hold: complete snapshots, and the
\* partial one of a run whose json.dump failed
StoreFiles(t) ==
    {MkFile(t, "json", TRUE, recs, FALSE) : recs \in StoreData}
        \cup {MkFile(t, "json", FALSE, << >>, FALSE)}

StoreDirs ==
    {<< >>} \cup {<<f>> : f \in StoreFiles(1)}
        \cup {<<f, g>> : f \in StoreFiles(1), g \in StoreFiles(2)}

\* api_log/ when the process starts: empty, or with the log of an earlier day
LogDirs == {<< >>, <<[day |-> "earlier", lines |-> <<[level |-> "INFO", op |-> "get", status |-> 200]>>]>>}

\* the API on a directory that runs have filled, no run in progress
InitApi ==
    /\ pc = "off" /\ ret = RetPending /\ failed = "none"
    /\ bulk_data = << >> /\ cartas = << >> /\ cartas_filtradas = << >>
    /\ groups = << >> /\ gi = 1 /\ ii = 1 /\ by_face = << >> /\ best = NoBest
    /\ result = << >> /\ result_key = << >>
    /\ log = << >> /\ errors = << >> /\ session_start = FALSE
    /\ pass = 1 /\ first_out = << >>
    /\ nombre_archivo = NoneInt /\ runs = 1 /\ files_before = << >>
    /\ bulk_files \in StoreDirs /\ clock = Len(bulk_files)
    /\ EvalIdle /\ ProjIdle
    /\ ApiIdle /\ api_logs \in LogDirs

SpecApi == InitApi /\ [][NextApi]_vars

\* the directory when the run begins: empty, or with one complete snapshot
RaceDirs == {d \in StoreDirs : Len(d) <= 1 /\ \A k \in 1..Len(d) : d[k].complete}

\* one run and the requests the API serves meanwhile
InitRace ==
    /\ pc = "start" /\ ret = RetPending /\ failed = "none"
    /\ bulk_data = << >> /\ cartas = << >> /\ cartas_filtradas = << >>
    /\ groups = << >> /\ gi = 1 /\ ii = 1 /\ by_face = << >> /\ best = NoBest
    /\ result = << >> /\ result_key = << >>
    /\ log = << >> /\ errors = << >> /\ session_start = FALSE
    /\ pass = 1 /\ first_out = << >>
    /\ nombre_archivo = NoneInt /\ runs = 1 /\ files_before = << >>
    /\ bulk_files \in RaceDirs /\ clock = Len(bulk_files)
    /\ EvalIdle /\ ProjIdle
    /\ ApiIdle /\ api_logs = << >>

NextRace == Steps \/ ParseStore \/ NextApi

SpecRace == InitRace /\ [][NextRace]_vars

\* ------------------------------------ the two pure functions on their own
InitRunIdle ==
    /\ pc = "off" /\ ret = RetPending /\ failed = "none"
    /\ bulk_data = << >> /\ cartas = << >> /\ cartas_filtradas = << >>
    /\ groups = << >> /\ gi = 1 /\ ii = 1 /\ by_face = << >> /\ best = NoBest
    /\ result = << >> /\ result_key = << >>
    /\ log = << >> /\ errors = << >> /\ session_start = FALSE
    /\ bulk_files = << >> /\ pass = 1 /\ first_out = << >>
    /\ nombre_archivo = NoneInt /\ clock = 0 /\ runs = 1 /\ files_before = << >>
    /\ ApiIdle /\ api_logs = << >>

NextEval == EvalCall /\ UNCHANGED <<runVars, projVars, apiVars>>

InitEvalOnly == InitRunIdle /\ ProjIdle /\ InitEval

SpecEval == InitEvalOnly /\ [][NextEval]_vars

NextProj == ProjCall /\ UNCHANGED <<runVars, evalVars, apiVars>>

InitProjOnly == InitRunIdle /\ EvalIdle /\ InitProj

SpecProj == InitProjOnly /\ [][NextProj]_vars

\* ================================================================ claims ==
\* the groups of the deduplicator are complete and resolved
Deduplicated == pc = "write"

\* the positions of result emitted for group g
EmittedFor(g) == {k \in 1..Len(result) : result_key[k] = groups[g].key}

\* the members of group g with face_number fn
Bucket(g, fn) ==
    {k \in 1..Len(groups[g].items) : groups[g].items[k].face_number = fn}

\* a price as the specification reads it: the number a numeric string
\* denotes, in cents; an absent or unparsable price is infinitely expensive
SpecPrice(rec) ==
    IF rec.price_usd \in {"1.00", "1.0"} THEN 100
    ELSE IF rec.price_usd = "2.10" THEN 210
    ELSE IF rec.price_usd = "0.50" THEN 50
    ELSE Inf

\* C1: once the deduplicator has run, every group all of whose members have
\* a null face_number has exactly one record in the output, whatever the
\* members' prices are.
C1_NoFaceGroupKeepsOne ==
    Deduplicated =>
        \A g \in 1..Len(groups) :
            ~AnyFace(groups[g].items) => Cardinality(EmittedFor(g)) = 1

\* C2: once the deduplicator has run, every group with a member whose
\* face_number is not null has, for each face_number value present in it
\* (null being a value of its own), exactly one record in the output, and
\* that record is one of the bucket's members, unmodified; nothing else is
\* emitted for the group.
C2_FaceGroupKeepsOnePerFace ==
    Deduplicated =>
        \A g \in 1..Len(groups) :
            AnyFace(groups[g].items) =>
                /\ \A m \in 1..Len(groups[g].items) :
                       LET fn == groups[g].items[m].face_number
                           kept == {k \in EmittedFor(g) : result[k].face_number = fn}
                       IN  /\ Cardinality(kept) = 1
                           /\ \A k \in kept :
                                  \E b \in Bucket(g, fn) : result[k] = groups[g].items[b]
                /\ \A k \in EmittedFor(g) : Bucket(g, result[k].face_number) # {}

\* C2 witness: a resolved face group with two members in one numeric bucket,
\* a second numeric bucket and a member with null face_number
C2_Witness ==
    /\ Deduplicated
    /\ \E g \in 1..Len(groups) :
           /\ Cardinality(Bucket(g, 0)) >= 2
           /\ Bucket(g, 1) # {}
           /\ Bucket(g, NoneInt) # {}
           /\ Cardinality(EmittedFor(g)) = 3

\* the members a kept record of group g competed with: its bucket in a face
\* group, the whole group otherwise
Rivals(g, rec) ==
    IF AnyFace(groups[g].items) THEN Bucket(g, rec.face_number)
    ELSE 1..Len(groups[g].items)

\* C3: every record kept has the minimum price among the members of its
\* bucket (face group) or of its group (no-face group), an absent or
\* unparsable price counting as infinity; so a record without a price is not
\* kept when a rival has one, whatever the input order.
C3_KeptHasMinimumPrice ==
    Deduplicated =>
        \A g \in 1..Len(groups) : \A k \in EmittedFor(g) :
            \A m \in Rivals(g, result[k]) :
                SpecPrice(result[k]) <= SpecPrice(groups[g].items[m])

\* C3 witness: a resolved no-face group whose first and third members have
\* no usable price and whose second has one, with a record kept
C3_Witness ==
    /\ Deduplicated
    /\ \E g \in 1..Len(groups) :
           /\ ~AnyFace(groups[g].items)
           /\ Len(groups[g].items) >= 3
           /\ SpecPrice(groups[g].items[1]) = Inf
           /\ SpecPrice(groups[g].items[2]) < Inf
           /\ SpecPrice(groups[g].items[3]) = Inf
           /\ EmittedFor(g) # {}

\* C4: records are grouped by oracle_id, else parent_id, else id, and a
\* record with none of them is the only member of its group.
C4_KeylessRecordIsAlone ==
    pc \in {"resolve", "write"} =>
        \A g \in 1..Len(groups) :
            LET items == groups[g].items
            IN  /\ \A m \in 1..Len(items) :
                       RawKey(items[m]) # Null => groups[g].key.id = RawKey(items[m])
                /\ (\E m \in 1..Len(items) : RawKey(items[m]) = Null) => Len(items) = 1

\* the set of records of a sequence
RecordSet(recs) == {recs[k] : k \in 1..Len(recs)}

\* C5: the deduplicator applied to its own output yields the same set of
\* records, for every resolution of the random choices.
C5_SecondPassIsFixedPoint ==
    (pass = 2 /\ Deduplicated) => RecordSet(cartas_filtradas) = RecordSet(first_out)

\* C6: filtrar_carta returns a non-empty list: for a card with n >= 1 faces,
\* n records in face order, each with the card's id as parent_id, the
\* card's oracle_id and the face's own face_number when supplied (0
\* included), else its index; for a card with absent or empty card_faces,
\* one record with parent_id null and the card's own face_number. (Cards
\* whose card_faces is null or holds an entry that is no mapping are left to
\* C8.)
C6_ProjectionCardinality ==
    (/\ proj_pc = "ret"
     /\ proj_in.card_faces.kind # "null"
     /\ \A k \in 1..Len(proj_in.card_faces.val) :
            proj_in.card_faces.val[k].kind = "dict") =>
        LET faces == proj_in.card_faces.val
            recs == proj_out.recs
        IN  /\ proj_out.exc = "none"
            /\ Len(recs) >= 1
            /\ (proj_in.card_faces.kind = "ok" /\ Len(faces) >= 1) =>
                   /\ Len(recs) = Len(faces)
                   /\ \A k \in 1..Len(recs) :
                          /\ recs[k].parent_id = proj_in.id
                          /\ recs[k].oracle_id = proj_in.oracle_id
                          /\ recs[k].face_number =
                                 IF faces[k].face_number # NoneInt
                                 THEN faces[k].face_number ELSE k - 1
            /\ (proj_in.card_faces.kind = "absent" \/ Len(faces) = 0) =>
                   /\ Len(recs) = 1
                   /\ recs[1].parent_id = Null
                   /\ recs[1].face_number = proj_in.face_number

\* whether filtrar_carta took the multi-face branch for proj_in
MultiFace == proj_in.card_faces.kind = "ok" /\ Len(proj_in.card_faces.val) > 0

\* C7: each record of a multi-face card has the cmc the evaluator gives for
\* that face's own mana_cost, whatever the card's cmc is; the record of a
\* single-face card has the card's cmc field unchanged.
C7_CmcPolicy ==
    (proj_pc = "ret" /\ proj_out.exc = "none") =>
        IF MultiFace
        THEN \A k \in 1..Len(proj_out.recs) :
                 proj_out.recs[k].cmc =
                     ParseManaCostToCmc(proj_in.card_faces.val[k].mana_cost).val
        ELSE \A k \in 1..Len(proj_out.recs) : proj_out.recs[k].cmc = proj_in.cmc

\* C7 witness: a two-face card projected, whose own cmc (5) and mana cost
\* differ from what its faces evaluate to (3 and 1)
C7_Witness ==
    /\ proj_pc = "ret" /\ proj_out.exc = "none"
    /\ MultiFace
    /\ Len(proj_out.recs) = 2
    /\ proj_in.cmc = 5
    /\ proj_out.recs[1].cmc = 3
    /\ proj_out.recs[2].cmc = 1

\* C8: whatever field of a source card is absent, null or of the wrong
\* shape, filtrar_carta raises nothing and returns records in which a missing
\* list-typed field is an empty sequence.
C8_ProjectionNeverRaises ==
    proj_pc = "ret" =>
        /\ proj_out.exc = "none"
        /\ \A k \in 1..Len(proj_out.recs) :
               (~MultiFace /\ proj_in.colors.kind = "absent") =>
                   proj_out.recs[k].colors = Present(<< >>)

\* ---- the evaluator as the specification describes it
\* the tokens: for each "}" of the string, the text between it and the first
\* "{" that follows the previous "}" (or the start), when there is one
SpecCloses(s) == {j \in 1..Len(s) : s[j] = "}"}

SpecOpenFor(s, j) ==
    LET before == {p \in SpecCloses(s) : p < j}
        from == IF before = {} THEN 0 ELSE SetMax(before)
    IN  {i \in (from + 1)..(j - 1) : s[i] = "{"}

SpecToken(s, j) == SubSeq(s, SetMin(SpecOpenFor(s, j)) + 1, j - 1)

RECURSIVE SpecDigitsValue(_, _)
\* the decimal value of the first n characters, all digits
SpecDigitsValue(t, n) ==
    IF n = 0 THEN 0 ELSE 10 * SpecDigitsValue(t, n - 1) + DigitVal(t[n])

\* the length of the leading run of digits of t
SpecDigitRun(t) ==
    SetMax({n \in 0..Len(t) : \A k \in 1..n : t[k] \in DigitChars})

\* all digits: its value; starts with digits: the value of the leading run;
\* else 1
SpecTokenValue(t) ==
    IF SpecDigitRun(t) > 0 THEN SpecDigitsValue(t, SpecDigitRun(t)) ELSE 1

RECURSIVE SpecTrim(_)
\* t without its leading and trailing blanks
SpecTrim(t) ==
    IF Len(t) = 0 THEN t
    ELSE IF Head(t) = " " THEN SpecTrim(Tail(t))
    ELSE IF t[Len(t)] = " " THEN SpecTrim(SubSeq(t, 1, Len(t) - 1))
    ELSE t

RECURSIVE SpecSum(_, _)
\* the sum of the token values over the closing braces js of s
SpecSum(s, js) ==
    IF js = {} THEN 0
    ELSE LET j == SetMin(js)
             v == IF SpecOpenFor(s, j) = {} THEN 0
                  ELSE SpecTokenValue(SpecTrim(SpecToken(s, j)))
         IN  v + SpecSum(s, js \ {j})

SpecEvaluate(m) ==
    IF m.kind # "str" THEN 0 ELSE SpecSum(m.chars, SpecCloses(m.chars))

\* the examples of the specification
EvaluatorExamples ==
    /\ ParseManaCostToCmc(ManaStr(<<"{", "2", "}", "{", "G", "}", "{", "U", "}">>)) = CmcValue(4)
    /\ ParseManaCostToCmc(ManaStr(<<"{", "X", "}", "{", "R", "}">>)) = CmcValue(2)
    /\ ParseManaCostToCmc(ManaStr(<<"{", "1", "0", "}">>)) = CmcValue(10)
    /\ ParseManaCostToCmc(ManaStr(<<"{", "G", "/", "U", "}">>)) = CmcValue(1)
    /\ ParseManaCostToCmc(ManaNone) = CmcValue(0)

\* C9: for every input the evaluator returns a number: 0 for a null, empty
\* or non-string input, otherwise the sum over the brace-delimited tokens
\* (read without surrounding blanks) of the token's value if it is all
\* digits, the value of its leading digits if it starts with digits, else 1;
\* the result is never negative.
C9_EvaluatorTotalSum ==
    eval_pc = "ret" =>
        /\ eval_out.exc = "none"
        /\ eval_out.val = SpecEvaluate(eval_in)
        /\ eval_out.val >= 0
        /\ EvaluatorExamples

\* the log holds an ERROR line and the end-of-session record of a failed run
LoggedFailure ==
    /\ \E k \in 1..Len(log) :
           log[k].level = "ERROR" /\ log[k].msg # "SCRAPING FINALIZADO CON ERRORES"
    /\ \E k \in 1..Len(log) :
           log[k] = [level |-> "ERROR", msg |-> "SCRAPING FINALIZADO CON ERRORES"]
    /\ \E k \in 1..Len(log) : log[k].msg = "FIN DE SESION DE SCRAPING"

\* C10: no exception leaves descargar_cartas_scryfall; it returns a file name
\* exactly when no stage failed, and otherwise None, after logging an error
\* and the end-of-session record of a failed run.
C10_RunNeverRaises ==
    /\ pc # "escaped"
    /\ pc = "returned" =>
           /\ (ret # RetNone) <=> (failed = "none")
           /\ ret # RetNone => ret = NombreArchivo(nombre_archivo)
           /\ ret = RetNone => LoggedFailure

\* the records kept for group g that came from a face of a printing
KeptFaces(g) == {k \in EmittedFor(g) : result[k].parent_id # Null}

\* C17: the deduplicator's input being the projection of source cards, in
\* every group resolved by the face path all the face records that are kept
\* belong to one printing: they have the same parent_id, however the random
\* tie-breaks fall.
C17_FacesStayTogether ==
    Deduplicated =>
        \A g \in 1..Len(groups) :
            AnyFace(groups[g].items) =>
                \A j, k \in KeptFaces(g) : result[j].parent_id = result[k].parent_id

\* ------------------------------------------------- the snapshot directory
\* the snapshot files of a directory, the oldest first
Snapshots(files) == SelectSeq(files, LAMBDA f : f.suffix = "json")

\* the n most recently modified of them
MostRecent(fs, n) == IF Len(fs) > n THEN SubSeq(fs, Len(fs) - n + 1, Len(fs)) ELSE fs

\* the run has returned, with a file name or with None
Succeeded == pc = "returned" /\ ret # RetNone
Failed == pc = "returned" /\ ret = RetNone

\* the snapshots of the directory once this run has written its own: those
\* found when the run began, and the new one as the most recent (in the place
\* of one of the same name)
AfterWrite ==
    Append(SelectSeq(Snapshots(files_before), LAMBDA f : f.stamp # nombre_archivo),
           MkFile(nombre_archivo, "json", TRUE, cartas_filtradas, FALSE))

\* no snapshot found when the run began has been deleted
NothingDeleted ==
    \A k \in 1..Len(Snapshots(files_before)) :
        \E j \in 1..Len(bulk_files) :
            /\ bulk_files[j].suffix = "json"
            /\ bulk_files[j].stamp = Snapshots(files_before)[k].stamp

\* the warnings of deletions that failed in this run
UnlinkWarnings == {k \in 1..Len(log) : log[k].msg = "No se pudo eliminar"}

\* C11 (as claimed): after each successful run of a sequence of runs the
\* directory holds at most 3 snapshots, they are the 3 most recently modified
\* ones and the one just written is among them; the pipeline deletes no file
\* but those beyond the 3 most recent (a failed run deletes none).
C11_SnapshotRetention ==
    /\ Succeeded => Snapshots(bulk_files) = MostRecent(AfterWrite, MaxFiles)
    /\ Failed => NothingDeleted

\* C11 (amended): after each successful run the 3 most recently modified
\* snapshots are in the directory, the one just written the most recent of
\* them; any other file still there is an older snapshot whose deletion
\* failed in this run, one warning logged for each, so that the directory
\* holds at most 3 when no deletion failed; a failed run deletes none.
C11_RetentionUnlessUnlinkFails ==
    /\ Succeeded =>
           LET now == Snapshots(bulk_files)
           IN  /\ MostRecent(now, MaxFiles) = MostRecent(AfterWrite, MaxFiles)
               /\ now[Len(now)].stamp = nombre_archivo
               /\ \A k \in 1..Len(now) : \E j \in 1..Len(AfterWrite) : AfterWrite[j] = now[k]
               /\ Len(now) = Len(MostRecent(AfterWrite, MaxFiles)) + Cardinality(UnlinkWarnings)
    /\ Failed => NothingDeleted

\* a successful run that found three snapshots or more and deleted one
C11_Witness ==
    /\ Succeeded
    /\ Len(Snapshots(files_before)) >= MaxFiles
    /\ ~NothingDeleted

\* C15: a run that reports failure (returns None), whichever stage failed,
\* leaves the snapshot files of the directory and their contents as they were
\* when it began: snapshots are created by successful runs only.
C15_FailedRunLeavesSnapshots ==
    Failed => bulk_files = files_before

\* ------------------------------------------------------ the API's requests
\* the request to endpoint op has been answered
Answered(op) == api_pc = "done" /\ request.op = op

\* the snapshots when the request arrived, and now
SnapsBefore == Snapshots(files_at_request)
SnapsNow == Snapshots(bulk_files)

\* the most recent snapshot when the request arrived
LastBefore == SnapsBefore[Len(SnapsBefore)]

\* the positions of its records that have the name of the request
Named == {j \in 1..Len(LastBefore.data) : LastBefore.data[j].name = request.name}

RECURSIVE SpecRemove(_, _)
\* a sequence of records with those named name removed
SpecRemove(recs, name) ==
    IF Len(recs) = 0 THEN << >>
    ELSE IF Head(recs).name = name THEN SpecRemove(Tail(recs), name)
    ELSE <<Head(recs)>> \o SpecRemove(Tail(recs), name)

\* the request was refused with this status and no snapshot has changed
Refused(status) == response.status = status /\ SnapsNow = SnapsBefore

\* /cards-delete succeeded: k records reported, the most recent snapshot
\* holds the others, and every other snapshot is as it was
DeleteDone ==
    /\ response.status = 200
    /\ response.count = Cardinality(Named)
    /\ response.file = NombreArchivo(LastBefore.stamp)
    /\ SnapsNow = [SnapsBefore EXCEPT ![Len(SnapsBefore)].data =
                       SpecRemove(LastBefore.data, request.name)]

\* C12 (as claimed): /cards-delete, the most recent snapshot holding k >= 1
\* records of the given name, replaces it by the same sequence without those
\* k records and reports removed = k; with k = 0 or no snapshot it answers
\* 404 and changes no snapshot; it touches no other snapshot. (The claim is
\* read as saying nothing of a most recent snapshot that holds no complete
\* JSON document.)
C12_DeleteByName ==
    Answered("delete") =>
        IF Len(SnapsBefore) = 0 THEN Refused(404)
        ELSE LastBefore.complete =>
                 IF Named = {} THEN Refused(404) ELSE DeleteDone

\* C12 (amended): as claimed when the most recent snapshot can be read and the
\* rewritten one written; when the most recent snapshot is not a complete
\* JSON document the answer is 500, and when k >= 1 and writing or replacing
\* fails the answer is 500 too; a 404 or a 500 changes no snapshot.
C12_DeleteByNameOr500 ==
    Answered("delete") =>
        IF Len(SnapsBefore) = 0 THEN Refused(404)
        ELSE IF ~LastBefore.complete THEN Refused(500)
        ELSE IF Named = {} THEN Refused(404)
        ELSE DeleteDone \/ Refused(500)

\* two records of the name removed from the more recent of two snapshots
C12_Witness ==
    /\ Answered("delete")
    /\ response.status = 200
    /\ response.count = 2
    /\ Len(SnapsNow) = 2
    /\ Len(SnapsNow[2].data) = 1

\* /cards-update succeeded: k records reported; in the most recent snapshot
\* each record of the name has every key of updates at its value and the rest
\* of its keys as before, every other record is as it was, in the same
\* number and order; every other snapshot is as it was
UpdateDone ==
    LET old == LastBefore.data
        new == SnapsNow[Len(SnapsNow)].data
        ups == request.updates
        keys == {ups[j][1] : j \in 1..Len(ups)}
    IN  /\ response.status = 200
        /\ response.count = Cardinality(Named)
        /\ Len(SnapsNow) = Len(SnapsBefore)
        /\ \A k \in 1..(Len(SnapsNow) - 1) : SnapsNow[k] = SnapsBefore[k]
        /\ SnapsNow[Len(SnapsNow)].stamp = LastBefore.stamp
        /\ SnapsNow[Len(SnapsNow)].complete
        /\ Len(new) = Len(old)
        /\ \A j \in 1..Len(old) :
               IF j \in Named
               THEN /\ DOMAIN new[j] = DOMAIN old[j] \cup keys
                    /\ \A i \in 1..Len(ups) : new[j][ups[i][1]] = ups[i][2]
                    /\ \A f \in DOMAIN old[j] \ keys : new[j][f] = old[j][f]
               ELSE new[j] = old[j]

\* C13 (as claimed): /cards-update, the most recent snapshot holding k >= 1
\* records of the given name, sets every key of updates in each of them,
\* leaves every other record and key, the number and the order of the records
\* unchanged, and reports updated = k; with k = 0 or no snapshot it answers
\* 404 and changes no snapshot. (The claim is read as saying nothing of a
\* most recent snapshot that holds no complete JSON document.)
C13_UpdateByName ==
    Answered("update") =>
        IF Len(SnapsBefore) = 0 THEN Refused(404)
        ELSE LastBefore.complete =>
                 IF Named = {} THEN Refused(404) ELSE UpdateDone

\* C13 (amended): as claimed when the most recent snapshot can be read and the
\* rewritten one written; when the most recent snapshot is not a complete
\* JSON document the answer is 500, and when k >= 1 and writing or replacing
\* fails the answer is 500 too; a 404 or a 500 changes no snapshot.
C13_UpdateByNameOr500 ==
    Answered("update") =>
        IF Len(SnapsBefore) = 0 THEN Refused(404)
        ELSE IF ~LastBefore.complete THEN Refused(500)
        ELSE IF Named = {} THEN Refused(404)
        ELSE UpdateDone \/ Refused(500)

\* two records of the name given a new key, a third record left alone
C13_Witness ==
    /\ Answered("update")
    /\ response.status = 200
    /\ response.count = 2
    /\ \E j \in 1..Len(data) : "note" \in DOMAIN data[j]
    /\ \E j \in 1..Len(data) : "note" \notin DOMAIN data[j]

\* C14: /logs-data never ends with an unhandled error; it answers 200 with
\* the lines of the most recently modified api_*.log when there is one, and
\* 404 when there is none.
C14_LogsData ==
    Answered("logs") =>
        /\ ~response.unhandled
        /\ IF Len(api_logs) = 0
           THEN response.status = 404
           ELSE response.status = 200 /\ response.body = api_logs[Len(api_logs)].lines

\* no request found the snapshot it selected unreadable
NoPartialRead == api_pc = "done" => response.detail # "Error al leer el archivo"

\* no snapshot is more recently modified than a complete snapshot that the
\* pipeline named after it
NoOlderOverNewer ==
    \A i, j \in Glob(bulk_files) :
        (i < j /\ bulk_files[i].complete) => bulk_files[i].stamp <= bulk_files[j].stamp

\* C16: however a run and the API's requests interleave, a request that
\* selects the most recent snapshot loads the complete records of a finished
\* write, never a partially written file, and a rewrite by the API never
\* makes an older snapshot the most recent one over a newer complete one of
\* the pipeline.
C16_ReaderConsistency == NoPartialRead /\ NoOlderOverNewer

====
